---- MODULE Spec2Model ----
(***************************************************************************)
(* Lead-capture backend (src/main.py): POST /api/leads validates a         *)
(* submission, persists it through create_document, schedules the staff    *)
(* notification as a background task and responds; GET /api/leads lists    *)
(* the most recent leads.  The document store adapter (database.py) and    *)
(* the Lead schema (schemas.py) are imported by main.py; they are modelled *)
(* from their documented contract.                                         *)
(***************************************************************************)
EXTENDS Integers, Sequences, FiniteSets, TLC

VARIABLES
    env,          \* the process environment read by os.getenv
    dbConnected,  \* database.db is not None
    store,        \* the "lead" collection, in insertion order
    nextOid,      \* the store's identifier generator
    req,          \* per request: position, payload, handler result, delivered response
    background,   \* per request: BackgroundTasks queue
    notif,        \* per request: what each background task that ran did
    lastList      \* the last GET /api/leads exchange

vars == <<env, dbConnected, store, nextOid, req, background, notif, lastList>>

(***************************** bounds *************************************)
MaxReq == 2
MaxLimit == 2
MaxPre == 3

Requests == 1..MaxReq

(************************* Python values **********************************)
\* Python's None, for an unset environment variable or an omitted field.
None == "<None>"

\* bool(v) of an optional string: None and "" are falsy.
Truthy(v) == v # None /\ v # ""

\* os.getenv(name, default)
getenv(name, default) == IF env[name] = None THEN default ELSE env[name]

\* int(s) succeeds on a decimal literal and raises ValueError otherwise.
IntLiterals == {"587", "2525"}
IsIntLiteral(s) == s \in IntLiterals

\* str(ObjectId): a non-empty rendering, injective in the identifier.
ObjectIdStr(oid) == "oid" \o ToString(oid)

(*************************** Lead schema **********************************)
WellFormedEmails == {"jane@example.com", "bob@example.com"}
IsEmail(e) == e \in WellFormedEmails

RequiredFields == {"name", "email", "interest"}

\* The fields of a raw submission that the Lead schema rejects.
InvalidFields(p) ==
    {f \in {"name", "interest"} : ~Truthy(p[f])}
        \cup (IF IsEmail(p.email) THEN {} ELSE {"email"})

Valid(p) == InvalidFields(p) = {}

Jane == [name |-> "Jane Doe", email |-> "jane@example.com", phone |-> None,
         interest |-> "visa consultation", notes |-> None]
Bob  == [name |-> "Bob Roe", email |-> "bob@example.com", phone |-> "555-0100",
         interest |-> "company setup", notes |-> "call after 6pm"]

ValidLeads == {Jane, Bob}

\* Raw submissions: the valid leads, and Jane's with one required field
\* omitted, empty or malformed.
Payloads ==
    ValidLeads \cup
    { [Jane EXCEPT !.name = None], [Jane EXCEPT !.email = None],
      [Jane EXCEPT !.interest = None], [Jane EXCEPT !.email = "jane.example.com"],
      [Jane EXCEPT !.name = ""] }

(************************ environment domains *****************************)
SmtpHosts == {None, "smtp.example.com"}
SmtpPorts == {None, "2525", "abc"}
SmtpUsers == {None, "user"}
SmtpPasses == {None, "secret"}
SmtpFroms == {None, "noreply@example.com"}
Primaries == {None, "", "a@example.com"}
Secondaries == {None, "", "a@example.com", "b@example.com"}

MkEnv(h, p, u, w, f, a, b) ==
    [SMTP_HOST |-> h, SMTP_PORT |-> p, SMTP_USER |-> u, SMTP_PASS |-> w,
     SMTP_FROM |-> f, NOTIFY_EMAIL_PRIMARY |-> a, NOTIFY_EMAIL_SECONDARY |-> b]

\* Every combination of set, unset, empty and malformed settings.
EnvAll ==
    { MkEnv(h, p, u, w, f, a, b) :
        h \in SmtpHosts, p \in SmtpPorts, u \in SmtpUsers, w \in SmtpPasses,
        f \in SmtpFroms, a \in Primaries, b \in Secondaries }

\* Deployments used for the request flow: nothing configured, a complete
\* configuration with and without credentials, a malformed port, no
\* from-address, and no recipients.
EnvFlow ==
    { MkEnv(None, None, None, None, None, None, None),
      MkEnv("smtp.example.com", None, "user", "secret", "noreply@example.com", None, None),
      MkEnv("smtp.example.com", "2525", None, None, "noreply@example.com",
            "a@example.com", "a@example.com"),
      MkEnv("smtp.example.com", "abc", None, None, "noreply@example.com", None, None),
      MkEnv("smtp.example.com", None, "user", None, None, None, None),
      MkEnv("smtp.example.com", "2525", "user", "secret", "noreply@example.com", "", "") }

(*************************** mail relay ***********************************)
\* What the relay does in one session: accepts the connection, advertises
\* STARTTLS, completes the TLS handshake, accepts the credentials, accepts
\* the message.
Relays ==
    [reachable : BOOLEAN, starttls : BOOLEAN, handshake : BOOLEAN,
     auth : BOOLEAN, accept : BOOLEAN]

\* The EmailMessage handed to the relay (absent until it is built).
NoMessage == [built |-> FALSE]
EmailMessage(subject, from, to_emails, body) ==
    [built |-> TRUE, Subject |-> subject, From |-> from, To |-> to_emails, content |-> body]

\* What one run of the notification task did.
Outcome(outcome, stage, connects, sends, offered, encrypted, authenticated, msg, log) ==
    [outcome |-> outcome, stage |-> stage, connects |-> connects, sends |-> sends,
     offered |-> offered, encrypted |-> encrypted, authenticated |-> authenticated,
     msg |-> msg, log |-> log]

\* The same, with the recipient list the task was called with.
Called(to_emails, o) ==
    [outcome |-> o.outcome, stage |-> o.stage, connects |-> o.connects, sends |-> o.sends,
     offered |-> o.offered, encrypted |-> o.encrypted, authenticated |-> o.authenticated,
     msg |-> o.msg, log |-> o.log, to_emails |-> to_emails]

\* Mutant: STARTTLS is skipped when the relay does not offer it and the
\* session goes on in cleartext.
SmtpSession_opportunistic(msg, relay) ==
    LET login == Truthy(getenv("SMTP_USER", None)) /\ Truthy(getenv("SMTP_PASS", None))
        tls == relay.starttls
        offered == IF tls THEN "yes" ELSE "no"
    IN  IF ~relay.reachable
          THEN Outcome("failed", "connect", 1, 0, "unknown", FALSE, FALSE, msg, "error")
        ELSE IF tls /\ ~relay.handshake
          THEN Outcome("failed", "starttls", 1, 0, "yes", FALSE, FALSE, msg, "error")
        ELSE IF login /\ ~relay.auth
          THEN Outcome("failed", "login", 1, 0, offered, tls, FALSE, msg, "error")
        ELSE IF ~relay.accept
          THEN Outcome("failed", "send", 1, 1, offered, tls, login, msg, "error")
        ELSE Outcome("sent", "send", 1, 1, offered, tls, login, msg, "info")

\* Mutant: a refused message is sent a second time on a new connection.
SmtpSession_retry(msg, relay) ==
    LET login == Truthy(getenv("SMTP_USER", None)) /\ Truthy(getenv("SMTP_PASS", None))
    IN  IF ~relay.reachable
          THEN Outcome("failed", "connect", 1, 0, "unknown", FALSE, FALSE, msg, "error")
        ELSE IF ~relay.starttls
          THEN Outcome("failed", "starttls", 1, 0, "no", FALSE, FALSE, msg, "error")
        ELSE IF ~relay.handshake
          THEN Outcome("failed", "starttls", 1, 0, "yes", FALSE, FALSE, msg, "error")
        ELSE IF login /\ ~relay.auth
          THEN Outcome("failed", "login", 1, 0, "yes", TRUE, FALSE, msg, "error")
        ELSE IF ~relay.accept
          THEN Outcome("failed", "send", 2, 2, "yes", TRUE, login, msg, "error")
        ELSE Outcome("sent", "send", 1, 1, "yes", TRUE, login, msg, "info")

\* The SMTP session of _send_email_sync: connect, starttls, optional login,
\* send_message; any exception is caught and logged at error level.
SmtpSession(msg, relay) ==
    LET smtp_user == getenv("SMTP_USER", None)
        smtp_pass == getenv("SMTP_PASS", None)
        login == Truthy(smtp_user) /\ Truthy(smtp_pass)
    IN  IF ~relay.reachable
          THEN Outcome("failed", "connect", 1, 0, "unknown", FALSE, FALSE, msg, "error")
        ELSE IF ~relay.starttls
          THEN Outcome("failed", "starttls", 1, 0, "no", FALSE, FALSE, msg, "error")
        ELSE IF ~relay.handshake
          THEN Outcome("failed", "starttls", 1, 0, "yes", FALSE, FALSE, msg, "error")
        ELSE IF login /\ ~relay.auth
          THEN Outcome("failed", "login", 1, 0, "yes", TRUE, FALSE, msg, "error")
        ELSE IF ~relay.accept
          THEN Outcome("failed", "send", 1, 1, "yes", TRUE, login, msg, "error")
        ELSE Outcome("sent", "send", 1, 1, "yes", TRUE, login, msg, "info")

_send_email_sync(subject, body, to_emails, relay) ==
    LET smtp_host == getenv("SMTP_HOST", None)
        smtp_port == getenv("SMTP_PORT", "587")
        smtp_from == getenv("SMTP_FROM", None)
    IN  IF ~IsIntLiteral(smtp_port)
          THEN Outcome("raised", "config", 0, 0, "unknown", FALSE, FALSE, NoMessage, "none")
        ELSE IF ~(Truthy(smtp_host) /\ Truthy(smtp_from) /\ to_emails # <<>>)
          THEN Outcome("skipped", "config", 0, 0, "unknown", FALSE, FALSE, NoMessage, "warning")
        ELSE SmtpSession(EmailMessage(subject, smtp_from, to_emails, body), relay)

\* Mutant: empties are dropped but duplicates are kept.
Recipients_keep_duplicates(to_list) ==
    LET F[i \in 0..Len(to_list)] ==
            IF i = 0 THEN <<>>
            ELSE IF Truthy(to_list[i]) THEN Append(F[i - 1], to_list[i]) ELSE F[i - 1]
    IN  F[Len(to_list)]

\* [e for i, e in enumerate(to_list) if e and e not in to_list[:i]]
Recipients(to_list) ==
    LET keep(i) == /\ Truthy(to_list[i])
                   /\ \A j \in 1..(i - 1) : to_list[j] # to_list[i]
        F[i \in 0..Len(to_list)] ==
            IF i = 0 THEN <<>>
            ELSE IF keep(i) THEN Append(F[i - 1], to_list[i]) ELSE F[i - 1]
    IN  F[Len(to_list)]

ConfiguredRecipients ==
    << getenv("NOTIFY_EMAIL_PRIMARY", "ken@expatsolutionsinasia.com"),
       getenv("NOTIFY_EMAIL_SECONDARY", "cloud@expatsolutionsinasia.com") >>

\* x or '-'
OrDash(v) == IF Truthy(v) THEN v ELSE "-"

NotificationBody(lead, inserted_id) ==
    << "A new lead has been submitted:",
       "ID: " \o inserted_id,
       "Name: " \o lead.name,
       "Email: " \o lead.email,
       "Phone: " \o OrDash(lead.phone),
       "Interest: " \o lead.interest,
       "Notes: " \o OrDash(lead.notes),
       "",
       "Reply directly to the contact to follow up." >>

queue_lead_notification(lead, inserted_id, relay) ==
    LET to_list == Recipients(ConfiguredRecipients)
    IN  Called(to_list,
               _send_email_sync("New consultation lead - Expat Solutions in Asia",
                                NotificationBody(lead, inserted_id), to_list, relay))

(************************* document store *********************************)
\* create_document: the record's fields plus the store's identifier and
\* creation stamp.
Document(oid, lead) ==
    [_id |-> oid, name |-> lead.name, email |-> lead.email, phone |-> lead.phone,
     interest |-> lead.interest, notes |-> lead.notes, created_at |-> oid]

\* The failures of a store call: never connected, or the call itself failed.
StoreErrors == IF dbConnected THEN {"insert failed"} ELSE {"Database not available"}
CanSucceed == dbConnected

Reverse(s) == [i \in 1..Len(s) |-> s[Len(s) + 1 - i]]
Min(a, b) == IF a <= b THEN a ELSE b

\* get_documents("lead", limit): up to limit records, newest first.
get_documents(limit) == SubSeq(Reverse(store), 1, Min(limit, Len(store)))

(***************************** responses **********************************)
NoResponse == [status |-> 0]
Success(id) == [status |-> 200, success |-> TRUE, id |-> id]
HTTPException(code, detail) == [status |-> code, detail |-> detail]
RequestValidationError(fields) == [status |-> 422, invalid |-> fields]

Idle == [pc |-> "idle", payload |-> Jane, result |-> NoResponse,
         delivered |-> NoResponse, events |-> <<>>]

(************************* POST /api/leads ********************************)
\* Requests are numbered in the order their handling starts.
Arrives(r) == req[r].pc = "idle" /\ \A q \in 1..(r - 1) : req[q].pc # "idle"

\* The framework parses the body as LeadCreate before calling the handler;
\* a body the schema rejects is answered without the handler running.
RejectInvalid(r, p) ==
    /\ Arrives(r)
    /\ ~Valid(p)
    /\ req' = [req EXCEPT ![r] = [pc |-> "returned", payload |-> p,
                                  result |-> RequestValidationError(InvalidFields(p)),
                                  delivered |-> NoResponse,
                                  events |-> <<"rejected">>]]
    /\ UNCHANGED <<env, dbConnected, store, nextOid, background, notif, lastList>>

\* create_lead, when create_document returns.
CreateLeadOk(r, lead) ==
    LET inserted_id == ObjectIdStr(nextOid)
    IN  /\ CanSucceed
        /\ store' = Append(store, Document(nextOid, lead))
        /\ nextOid' = nextOid + 1
        /\ background' = [background EXCEPT ![r] =
               Append(@, [lead |-> lead, inserted_id |-> inserted_id])]
        /\ req' = [req EXCEPT ![r] = [pc |-> "returned", payload |-> lead,
                                      result |-> Success(inserted_id),
                                      delivered |-> NoResponse,
                                      events |-> <<"persist", "schedule">>]]
        /\ UNCHANGED <<env, dbConnected, notif, lastList>>

\* Mutant: the task is queued before create_document is called, so a
\* failed insert still leaves it scheduled.
CreateLeadFails_scheduled(r, lead, e) ==
    /\ req' = [req EXCEPT ![r] = [pc |-> "returned", payload |-> lead,
                                  result |-> HTTPException(500, e),
                                  delivered |-> NoResponse,
                                  events |-> <<"schedule", "persist_failed">>]]
    /\ background' = [background EXCEPT ![r] =
           Append(@, [lead |-> lead, inserted_id |-> None])]
    /\ UNCHANGED <<env, dbConnected, store, nextOid, notif, lastList>>

\* create_lead, when create_document raises e.
CreateLeadFails(r, lead, e) ==
    /\ req' = [req EXCEPT ![r] = [pc |-> "returned", payload |-> lead,
                                  result |-> HTTPException(500, e),
                                  delivered |-> NoResponse,
                                  events |-> <<"persist_failed">>]]
    /\ UNCHANGED <<env, dbConnected, store, nextOid, background, notif, lastList>>

\* Mutant: the notification is called inside the handler's try block
\* instead of being queued.
create_lead_inline(r, lead) ==
    /\ Arrives(r)
    /\ Valid(lead)
    /\ \/ /\ CanSucceed
          /\ \E relay \in Relays :
               LET inserted_id == ObjectIdStr(nextOid)
                   done == queue_lead_notification(lead, inserted_id, relay)
               IN  /\ store' = Append(store, Document(nextOid, lead))
                   /\ nextOid' = nextOid + 1
                   /\ notif' = [notif EXCEPT ![r] = Append(@, done)]
                   /\ req' = [req EXCEPT ![r] =
                         [pc |-> "returned", payload |-> lead,
                          result |-> IF done.outcome = "raised"
                                       THEN HTTPException(500, "invalid literal for int()")
                                       ELSE Success(inserted_id),
                          delivered |-> NoResponse,
                          events |-> <<"persist", "notify">>]]
                   /\ UNCHANGED <<env, dbConnected, background, lastList>>
       \/ \E e \in StoreErrors : CreateLeadFails(r, lead, e)

\* Mutant: the handler takes the raw body, so nothing is validated before
\* create_document.
create_lead_unvalidated(r, lead) ==
    /\ Arrives(r)
    /\ \/ CreateLeadOk(r, lead)
       \/ \E e \in StoreErrors : CreateLeadFails(r, lead, e)

create_lead(r, lead) ==
    /\ Arrives(r)
    /\ Valid(lead)
    /\ \/ CreateLeadOk(r, lead)
       \/ \E e \in StoreErrors : CreateLeadFails(r, lead, e)

\* The response is serialized and sent; queued background tasks run after.
SendResponse(r) ==
    /\ req[r].pc = "returned"
    /\ req' = [req EXCEPT ![r].delivered = req[r].result,
                          ![r].events = Append(@, "response"),
                          ![r].pc = IF background[r] = <<>> THEN "done" ELSE "responded"]
    /\ UNCHANGED <<env, dbConnected, store, nextOid, background, notif, lastList>>

\* Mutant: the task starts as soon as it is queued, without waiting for the
\* response to be sent.
RunBackground_eager(r) ==
    /\ req[r].pc \in {"returned", "responded"}
    /\ background[r] # <<>>
    /\ \E relay \in Relays :
         LET task == Head(background[r])
             done == queue_lead_notification(task.lead, task.inserted_id, relay)
         IN  /\ notif' = [notif EXCEPT ![r] = Append(@, done)]
             /\ background' = [background EXCEPT ![r] = Tail(@)]
             /\ req' = [req EXCEPT ![r].events = Append(@, "notify"),
                                   ![r].pc = IF req[r].pc = "returned" THEN "returned"
                                             ELSE "done"]
    /\ UNCHANGED <<env, dbConnected, store, nextOid, lastList>>

\* BackgroundTasks.__call__: the queued tasks run in order; a task that
\* raises ends the run.
RunBackground(r) ==
    /\ req[r].pc = "responded"
    /\ background[r] # <<>>
    /\ \E relay \in Relays :
         LET task == Head(background[r])
             done == queue_lead_notification(task.lead, task.inserted_id, relay)
             rest == IF done.outcome = "raised" THEN <<>> ELSE Tail(background[r])
         IN  /\ notif' = [notif EXCEPT ![r] = Append(@, done)]
             /\ background' = [background EXCEPT ![r] = rest]
             /\ req' = [req EXCEPT ![r].events = Append(@, "notify"),
                                   ![r].pc = IF rest = <<>> THEN "done" ELSE "responded"]
    /\ UNCHANGED <<env, dbConnected, store, nextOid, lastList>>

(************************** GET /api/leads ********************************)
\* Mutant: the identifier is read under the wrong key.
LeadOut_wrong_key(d) ==
    [id |-> "None", name |-> d.name, email |-> d.email, phone |-> d.phone,
     interest |-> d.interest, notes |-> d.notes, created_at |-> d.created_at]

LeadOut(d) ==
    [id |-> ObjectIdStr(d._id), name |-> d.name, email |-> d.email, phone |-> d.phone,
     interest |-> d.interest, notes |-> d.notes, created_at |-> d.created_at]

NoList == [status |-> 0, limit |-> 0, seen |-> 0, body |-> <<>>]

\* Mutant: the limit is not passed on to get_documents.
list_leads_ignores_limit(limit) ==
    /\ \/ /\ CanSucceed
          /\ LET docs == get_documents(Len(store))
             IN  lastList' = [status |-> 200, limit |-> limit, seen |-> Len(store),
                              body |-> [i \in 1..Len(docs) |-> LeadOut(docs[i])]]
       \/ \E e \in StoreErrors :
             lastList' = [status |-> 500, limit |-> limit, seen |-> Len(store),
                          body |-> <<>>, detail |-> e]
    /\ UNCHANGED <<env, dbConnected, store, nextOid, req, background, notif>>

list_leads(limit) ==
    /\ \/ /\ CanSucceed
          /\ LET docs == get_documents(limit)
             IN  lastList' = [status |-> 200, limit |-> limit, seen |-> Len(store),
                              body |-> [i \in 1..Len(docs) |-> LeadOut(docs[i])]]
       \/ \E e \in StoreErrors :
             lastList' = [status |-> 500, limit |-> limit, seen |-> Len(store),
                          body |-> <<>>, detail |-> e]
    /\ UNCHANGED <<env, dbConnected, store, nextOid, req, background, notif>>

(*************************** specifications *******************************)
\* Leads already in the collection when the process starts.
Preloaded(k) == [i \in 1..k |-> Document(i, IF i % 2 = 1 THEN Bob ELSE Jane)]

InitWith(e, k) ==
    /\ env = e
    /\ dbConnected \in BOOLEAN
    /\ store = Preloaded(k)
    /\ nextOid = k + 1
    /\ req = [r \in Requests |-> Idle]
    /\ background = [r \in Requests |-> <<>>]
    /\ notif = [r \in Requests |-> <<>>]
    /\ lastList = NoList

PostOf(r) ==
    \/ \E p \in Payloads : RejectInvalid(r, p)
    \/ \E p \in Payloads : create_lead(r, p)
    \/ SendResponse(r)
    \/ RunBackground(r)

Post == \E r \in Requests : PostOf(r)

Get == \E limit \in 0..MaxLimit : list_leads(limit)

\* The submission path under each deployment.
Init == \E e \in EnvFlow : InitWith(e, 0)
Next == Post
Spec == Init /\ [][Next]_vars

\* Submissions and listings over a collection that starts empty or already
\* holds MaxPre leads.
InitStore == \E k \in {0, MaxPre} : InitWith(MkEnv(None, None, None, None, None, None, None), k)
NextStore == Post \/ Get
SpecStore == InitStore /\ [][NextStore]_vars

\* One submission under every combination of environment settings.
InitNotify == \E e \in EnvAll : InitWith(e, 0)
NextNotify == PostOf(1)
SpecNotify == InitNotify /\ [][NextNotify]_vars

(******************************* claims ***********************************)
Has(seq, e) == \E i \in 1..Len(seq) : seq[i] = e
Pos(seq, e) == CHOOSE i \in 1..Len(seq) : seq[i] = e
Count(seq, S) == Cardinality({i \in 1..Len(seq) : seq[i] \in S})

Persisted(r) == Has(req[r].events, "persist")
Runs(r) == {notif[r][i] : i \in 1..Len(notif[r])}
AllRuns == UNION {Runs(r) : r \in Requests}

\* The document a request's create_document call stored.
StoredFor(r, id) ==
    \E i \in 1..Len(store) :
        /\ ObjectIdStr(store[i]._id) = id
        /\ \A f \in {"name", "email", "phone", "interest", "notes"} :
               store[i][f] = req[r].payload[f]

\* C1: when create_document succeeded, the handler's result and the response
\* delivered to the client are {success: true, id: <the stored id>}, whatever
\* the notification did (not yet run, skipped, sent, failed or raised).
C1_ResponseUnaffectedByNotification ==
    \A r \in Requests :
        Persisted(r) =>
            /\ req[r].result.status = 200
            /\ req[r].result.success = TRUE
            /\ StoredFor(r, req[r].result.id)
            /\ req[r].pc \in {"responded", "done"} => req[r].delivered = req[r].result

C1_Witness ==
    \E r \in Requests :
        /\ Persisted(r)
        /\ req[r].pc = "done"
        /\ req[r].delivered.status = 200
        /\ \E o \in Runs(r) : o.outcome = "failed" /\ o.stage = "starttls"

\* C2: a submission missing name, email or interest is answered with a
\* client error (4xx); create_document is not called for it, nothing is
\* stored for it and no notification is scheduled or run.
MissingRequired(p) == \E f \in RequiredFields : p[f] = None

C2_MissingFieldRejectedWithoutPersistence ==
    /\ \A r \in Requests :
         (req[r].pc # "idle" /\ MissingRequired(req[r].payload)) =>
            /\ req[r].result.status \in 400..499
            /\ ~Has(req[r].events, "persist")
            /\ ~Has(req[r].events, "persist_failed")
            /\ ~Has(req[r].events, "schedule")
            /\ background[r] = <<>>
            /\ notif[r] = <<>>
    /\ Len(store) = Cardinality({r \in Requests :
                                   req[r].pc # "idle" /\ Valid(req[r].payload)
                                     /\ req[r].result.status = 200})

C2_Witness ==
    \E r, q \in Requests :
        /\ req[r].pc = "done"
        /\ req[r].payload.email = None
        /\ req[r].delivered.status = 422
        /\ req[q].pc = "done" /\ req[q].delivered.status = 200

\* C3: in a successful submission the store is written, then the response
\* is sent, then the notification runs: no notification has run while the
\* response is still pending, and the response is delivered while the task
\* is still queued.
C3_PersistThenResponseThenNotify ==
    \A r \in Requests :
        /\ (notif[r] # <<>> \/ Has(req[r].events, "notify")) =>
              /\ Persisted(r)
              /\ Has(req[r].events, "response")
              /\ Pos(req[r].events, "persist") < Pos(req[r].events, "response")
              /\ Pos(req[r].events, "response") < Pos(req[r].events, "notify")
              /\ req[r].delivered.status = 200
        /\ (Persisted(r) /\ Has(req[r].events, "response")) =>
              Pos(req[r].events, "persist") < Pos(req[r].events, "response")
        /\ req[r].pc = "returned" => notif[r] = <<>>

C3_Witness ==
    \E r \in Requests :
        /\ req[r].events = <<"persist", "schedule", "response", "notify">>
        /\ Len(notif[r]) = 1

\* C4: when create_document fails, the request ends with status 500 whose
\* detail is the failure's text; no notification is scheduled or run and no
\* success body is produced or delivered.
C4_StoreFailureIs500AndTerminal ==
    \A r \in Requests :
        Has(req[r].events, "persist_failed") =>
            /\ req[r].result.status = 500
            /\ req[r].result.detail \in StoreErrors
            /\ req[r].delivered \in {NoResponse, req[r].result}
            /\ req[r].pc = "done" => req[r].delivered = req[r].result
            /\ ~Has(req[r].events, "schedule")
            /\ ~Has(req[r].events, "notify")
            /\ background[r] = <<>>
            /\ notif[r] = <<>>

C4_Witness ==
    \E r \in Requests :
        /\ req[r].pc = "done"
        /\ Has(req[r].events, "persist_failed")
        /\ req[r].delivered.status = 500
        /\ req[r].delivered.detail = "Database not available"

\* C5: the position in the collection of the record a successful create
\* stored, and whether the last listing was taken after it.
RecordPos(r) == CHOOSE i \in 1..Len(store) : ObjectIdStr(store[i]._id) = req[r].result.id
Created(r) == req[r].pc # "idle" /\ req[r].result.status = 200
ListedAfter(r) == lastList.status = 200 /\ lastList.seen >= RecordPos(r)
Listed(r) ==
    \E i \in 1..Len(lastList.body) :
        /\ lastList.body[i].id = req[r].result.id
        /\ \A f \in {"name", "email", "phone", "interest", "notes"} :
               lastList.body[i][f] = req[r].payload[f]

\* C5 (as stated): every successful create returns a non-empty id and any
\* later successful listing (with a limit of at least 1) includes the
\* matching record, however many submissions came in between.
C5_Original_AnyLaterListIncludes ==
    \A r \in Requests :
        Created(r) =>
            /\ req[r].result.id # ""
            /\ (ListedAfter(r) /\ lastList.limit >= 1) => Listed(r)

\* C5 (amended): every successful create returns a non-empty id, and a later
\* successful listing includes the matching record whenever its limit is at
\* least the number of records created from that one on.
C5_ListIncludesWithinLimit ==
    \A r \in Requests :
        Created(r) =>
            /\ req[r].result.id # ""
            /\ (ListedAfter(r) /\ lastList.limit >= lastList.seen - RecordPos(r) + 1) =>
                  Listed(r)

C5_Witness ==
    \E r, q \in Requests :
        /\ r # q /\ Created(r) /\ Created(q)
        /\ RecordPos(r) < RecordPos(q)
        /\ ListedAfter(q)
        /\ Listed(r)

\* C6: a successful GET /api/leads?limit=N over M records returns exactly
\* min(N, M) records: the most recently created ones, newest first.
C6_ListReturnsNewestMinLimit ==
    lastList.status = 200 =>
        /\ Len(lastList.body) = Min(lastList.limit, lastList.seen)
        /\ \A i \in 1..Len(lastList.body) :
               lastList.body[i] = [id |-> ObjectIdStr(store[lastList.seen + 1 - i]._id),
                                   name |-> store[lastList.seen + 1 - i].name,
                                   email |-> store[lastList.seen + 1 - i].email,
                                   phone |-> store[lastList.seen + 1 - i].phone,
                                   interest |-> store[lastList.seen + 1 - i].interest,
                                   notes |-> store[lastList.seen + 1 - i].notes,
                                   created_at |-> store[lastList.seen + 1 - i].created_at]

C6_Witness ==
    /\ lastList.status = 200
    /\ lastList.limit = 2
    /\ lastList.seen = 5
    /\ Len(lastList.body) = 2
    /\ lastList.body[1].id = ObjectIdStr(store[5]._id)
    /\ lastList.body[2].id = ObjectIdStr(store[4]._id)

\* C7: the recipient list holds each distinct non-empty configured address
\* exactly once, primary before secondary, and no empty entry; equal
\* addresses give one recipient, two empty ones give none.
Primary == getenv("NOTIFY_EMAIL_PRIMARY", "ken@expatsolutionsinasia.com")
Secondary == getenv("NOTIFY_EMAIL_SECONDARY", "cloud@expatsolutionsinasia.com")

C7_RecipientsDistinctNonEmptyInOrder ==
    \A o \in AllRuns :
        LET to == o.to_emails
        IN  /\ \A i \in 1..Len(to) : to[i] # "" /\ to[i] # None /\ to[i] \in {Primary, Secondary}
            /\ \A i, j \in 1..Len(to) : to[i] = to[j] => i = j
            /\ \A a \in {Primary, Secondary} : Truthy(a) => Has(to, a)
            /\ (Has(to, Primary) /\ Has(to, Secondary) /\ Primary # Secondary) =>
                   Pos(to, Primary) < Pos(to, Secondary)
            /\ (Primary = Secondary /\ Truthy(Primary)) => Len(to) = 1
            /\ (~Truthy(Primary) /\ ~Truthy(Secondary)) => to = <<>>
            /\ o.msg.built => o.msg.To = to

C7_Witness ==
    \E o \in AllRuns :
        /\ Primary = "a@example.com" /\ Secondary = "a@example.com"
        /\ o.outcome = "sent"
        /\ o.msg.To = <<"a@example.com">>

\* C8 (as stated): no run of the notification task raises to its caller.
C8_Original_NotificationNeverRaises ==
    \A o \in AllRuns : o.outcome # "raised"

\* C9 (as stated): a reachable relay that does not offer STARTTLS still
\* receives the message.
C9_Original_SentWithoutStarttls ==
    \A o \in AllRuns : o.offered = "no" => o.sends = 1

\* C9 (amended): the TLS upgrade is mandatory: the message is handed to the
\* relay only on a connection that was upgraded, and when the relay is
\* reachable but does not offer STARTTLS the send is abandoned and the
\* failure is logged at error level.
C9_SendOnlyAfterStarttls ==
    \A o \in AllRuns :
        /\ o.sends > 0 => (o.encrypted /\ o.offered = "yes")
        /\ o.offered = "no" =>
              /\ o.outcome = "failed" /\ o.stage = "starttls"
              /\ o.sends = 0 /\ o.log = "error"

C9_Witness ==
    \E o \in AllRuns : o.offered = "no" /\ o.outcome = "failed" /\ o.connects = 1

\* C10: nothing is retried: a request makes at most one create_document
\* call, a successful submission schedules exactly one notification task,
\* and a task that ran made at most one connection and one send attempt
\* (none when skipped) and left nothing queued.
C10_NothingRetried ==
    \A r \in Requests :
        /\ Count(req[r].events, {"persist", "persist_failed"}) <= 1
        /\ Count(req[r].events, {"notify"}) <= 1
        /\ Persisted(r) => Len(background[r]) + Len(notif[r]) = 1
        /\ ~Persisted(r) => (background[r] = <<>> /\ notif[r] = <<>>)
        /\ \A o \in Runs(r) :
              /\ o.connects <= 1 /\ o.sends <= 1
              /\ o.outcome \in {"skipped", "raised"} => (o.connects = 0 /\ o.sends = 0)
              /\ background[r] = <<>> /\ req[r].pc = "done"

C10_Witness ==
    \E r, q \in Requests :
        /\ \E o \in Runs(r) : o.outcome = "failed" /\ o.stage = "send" /\ o.sends = 1
        /\ req[q].pc = "done" /\ Has(req[q].events, "persist_failed")
====
